---- MODULE Spec2Model ----
(***************************************************************************)
(* Model of the Android JNI binding of sqlite-vec                          *)
(*   src/bindings/android/src/main/cpp/sqlite-vec-jni.c    ("c")           *)
(*   src/bindings/android/src/main/cpp/sqlite-vec-jni.cpp  ("cpp")         *)
(* Both files export the same Java_com_sqlite_vec_SQLiteVec_* symbols, so  *)
(* exactly one of them is linked into a given build (variable impl).       *)
(*                                                                         *)
(* One action per JNI entry point.  An action runs the whole native        *)
(* method: it records every JNI / SQLite call the method makes, in order,  *)
(* in log, and the value handed back to Java in ret.  The outcomes of the  *)
(* calls into the Java runtime and the SQL engine (allocation failure,     *)
(* prepare failure, step result, undefined behaviour) are inputs.          *)
(*                                                                         *)
(* Arrays.  A Java array is [len, elems]: len is its true length (a        *)
(* jsize) and elems its first Min(len, window) elements, the window being  *)
(* MaxLen floats or 4*MaxLen bytes.  Arrays no longer than the window are  *)
(* therefore represented exactly; longer ones by length and leading        *)
(* elements.  A float is its 32-bit pattern read as a signed integer, a    *)
(* byte is a jbyte (-128..127).                                            *)
(***************************************************************************)
EXTENDS Integers, Sequences, FiniteSets, TLC

MaxLen == 2

SizeofFloat == 4
SQLITE_OK == 0
SQLITE_ERROR == 1

VARIABLES impl, littleEndian, loaded, call, ret, log, origin, leaked

vars == <<impl, littleEndian, loaded, call, ret, log, origin, leaked>>

----------------------------------------------------------------------------
(* Values *)

Min(a, b) == IF a < b THEN a ELSE b

JSizeMax == 2147483647

FloatWindow == MaxLen
ByteWindow == SizeofFloat * MaxLen

\* 1.0f, -2.5f, 0.0f as raw bit patterns
Floats == {1065353216, -1071644672, 0}

SeqsUpTo(S, n) == UNION {[1..k -> S] : k \in 0..n}

NullArr == [len |-> -1, elems |-> <<>>]
Arr(n, s) == [len |-> n, elems |-> s]
ZeroArr(n, w) == [len |-> n, elems |-> [i \in 1..Min(n, w) |-> 0]]
Take(s, n) == SubSeq(s, 1, Min(n, Len(s)))

\* lengths at and around the points where 4*N leaves the jsize range
BigFloatLens == {536870911, 536870912, 1073741824, 1073741825, JSizeMax}
BigByteLens == {2147483644, JSizeMax}

\* leading elements of the long arrays
FloatFill == [i \in 1..FloatWindow |-> IF i % 2 = 1 THEN 1065353216 ELSE -1071644672]
ByteFills == {[i \in 1..ByteWindow |-> IF i % 3 = 0 THEN -128 ELSE 63],
              [i \in 1..ByteWindow |-> IF i % 4 = 3 THEN -128 ELSE IF i % 4 = 0 THEN 63 ELSE 0]}

FloatArrays ==
    {Arr(Len(s), s) : s \in SeqsUpTo(Floats, MaxLen)}
    \cup {Arr(n, FloatFill) : n \in BigFloatLens}

ByteArrays ==
    {Arr(n, Take(s, n)) : n \in 0..ByteWindow, s \in ByteFills}
    \cup {Arr(n, s) : n \in BigByteLens, s \in ByteFills}

----------------------------------------------------------------------------
(* Reinterpretation of floats as bytes, in the host's byte order *)

JByte(u) == IF u >= 128 THEN u - 256 ELSE u
U8(b) == (b + 256) % 256

FloatBytesLE(f) ==
    << JByte(f % 256), JByte((f \div 256) % 256),
       JByte((f \div 65536) % 256), JByte((f \div 16777216) % 256) >>

Reverse(s) == [i \in 1..Len(s) |-> s[Len(s) + 1 - i]]

FloatBytes_AlwaysLE(f, le) == FloatBytesLE(f)

FloatBytes(f, le) == IF le THEN FloatBytesLE(f) ELSE Reverse(FloatBytesLE(f))

BytesFloat(b, le) ==
    LET l == IF le THEN b ELSE Reverse(b)
    IN  U8(l[1]) + 256 * U8(l[2]) + 65536 * U8(l[3]) + 16777216 * l[4]

\* the memory a pinned jfloat* points at, viewed as jbyte*
RECURSIVE FloatsAsBytes(_, _)
FloatsAsBytes(s, le) ==
    IF s = <<>> THEN <<>>
    ELSE FloatBytes(Head(s), le) \o FloatsAsBytes(Tail(s), le)

\* the memory a pinned jbyte* points at, viewed as count jfloats
BytesAsFloats(b, count, le) ==
    [i \in 1..count |-> BytesFloat(SubSeq(b, 4 * i - 3, 4 * i), le)]

MulSizeofFloat_Unscaled(length) == length

\* (jsize)(length * sizeof(float)): the product is formed in size_t and
\* narrowed to the 32-bit signed jsize, i.e. 4*length modulo 2^32, signed.
\* Written so that no intermediate value leaves the 32-bit range.
MulSizeofFloat(length) ==
    LET r == length % 1073741824
    IN  IF r < 536870912 THEN SizeofFloat * r
        ELSE SizeofFloat * (r - 1073741824)

----------------------------------------------------------------------------
(* Results and the call log *)

Ev(c, a, r) == [call |-> c, arg |-> a, res |-> r]

NoTerm == [fn |-> "-", a1 |-> NullArr, a2 |-> NullArr]
Term(f, x, y) == [fn |-> f, a1 |-> x, a2 |-> y]

Val(k, n, a, t) == [kind |-> k, lit |-> n, arr |-> a, col |-> t]
NoRet == Val("none", 0, NullArr, NoTerm)
Crash == Val("crash", 0, NullArr, NoTerm)
NoLink == Val("unsatisfied_link", 0, NullArr, NoTerm)
RetNull == Val("null", 0, NullArr, NoTerm)
RetArr(a) == IF a = NullArr THEN RetNull ELSE Val("array", 0, a, NoTerm)
RetInt(n) == Val("int", n, NullArr, NoTerm)
RetDouble(n) == Val("double", n, NullArr, NoTerm)
RetBool(b) == Val("bool", IF b THEN 1 ELSE 0, NullArr, NoTerm)
RetCol(k, t) == Val(k, 0, NullArr, t)

Out(r, l) == [ret |-> r, log |-> l]

\* What a call into the runtime handed back: "ptr" / "ok" on success; a NULL
\* is recorded by its cause: "oom" (the runtime could not allocate), "NULL"
\* (NULL in, NULL out), "negative" (negative array length rejected).
IsNull(r) == r \in {"oom", "NULL", "negative"}
Ptr(ok) == IF ok THEN "ptr" ELSE "oom"

\* NewByteArray / NewFloatArray of n elements.  new is what the runtime does
\* with the request: "ok", "oom" (cannot allocate: NULL), or "abort" (a
\* runtime that aborts the process on a negative length instead of
\* returning NULL; on a valid length it behaves as "oom").
AllocOutcomes == {"ok", "oom", "abort"}
NewArray(n, new) ==
    IF n < 0 THEN (IF new = "abort" THEN "abort" ELSE "negative")
    ELSE IF new = "ok" THEN "ok" ELSE "oom"

\* what strcmp on a NULL string does: the process dies, or the comparison
\* chain ends in one of its branches
UBOutcomes == {"crash", "cosine", "l2", "other"}

\* no call of the log failed for want of memory
EnvOK(l) == \A i \in 1..Len(l) : l[i].res # "oom"

----------------------------------------------------------------------------
(* Array Marshaller, sqlite-vec-jni.c *)

c_nativeSerializeFloat32(vector, le, pin, new, crash) ==
    LET length == vector.len
        e1 == Ev("GetFloatArrayElements", "vector", Ptr(pin))
        byteLength == MulSizeofFloat(length)
        na == NewArray(byteLength, new)
        e2 == Ev("NewByteArray", "result", na)
        e3 == Ev("SetByteArrayRegion", "result", Ptr(pin))
        e4 == Ev("ReleaseFloatArrayElements", "vector", Ptr(pin))
        bytes == FloatsAsBytes(vector.elems, le)
    IN  IF na = "abort" THEN Out(Crash, <<e1, e2>>)
        ELSE IF IsNull(na) THEN
            \* SetByteArrayRegion on a NULL array reference: undefined
            IF crash THEN Out(Crash, <<e1, e2, e3>>)
            ELSE Out(RetNull, <<e1, e2, e3, e4>>)
        ELSE IF ~pin /\ byteLength > 0 THEN
            \* copy out of a NULL buffer: undefined
            IF crash THEN Out(Crash, <<e1, e2, e3>>)
            ELSE Out(RetArr(ZeroArr(byteLength, ByteWindow)), <<e1, e2, e3, e4>>)
        ELSE Out(RetArr(Arr(byteLength, Take(bytes, Min(byteLength, ByteWindow)))),
                 <<e1, e2, e3, e4>>)

c_nativeDeserializeFloat32(data, le, pin, new, crash) ==
    LET data_length == data.len
        e1 == Ev("GetByteArrayElements", "data", Ptr(pin))
        float_count == data_length \div SizeofFloat
        na == NewArray(float_count, new)
        e2 == Ev("NewFloatArray", "result", na)
        e3 == Ev("SetFloatArrayRegion", "result", Ptr(pin))
        e4 == Ev("ReleaseByteArrayElements", "data", Ptr(pin))
    IN  IF IsNull(na) THEN
            IF crash THEN Out(Crash, <<e1, e2, e3>>)
            ELSE Out(RetNull, <<e1, e2, e3, e4>>)
        ELSE IF ~pin /\ float_count > 0 THEN
            IF crash THEN Out(Crash, <<e1, e2, e3>>)
            ELSE Out(RetArr(ZeroArr(float_count, FloatWindow)), <<e1, e2, e3, e4>>)
        ELSE Out(RetArr(Arr(float_count,
                     BytesAsFloats(data.elems, Min(float_count, FloatWindow), le))),
                 <<e1, e2, e3, e4>>)

c_nativeSerializeInt8(vector, pin, new, crash) ==
    LET length == vector.len
        e1 == Ev("GetByteArrayElements", "vector", Ptr(pin))
        na == NewArray(length, new)
        e2 == Ev("NewByteArray", "result", na)
        e3 == Ev("SetByteArrayRegion", "result", Ptr(pin))
        e4 == Ev("ReleaseByteArrayElements", "vector", Ptr(pin))
    IN  IF IsNull(na) THEN
            IF crash THEN Out(Crash, <<e1, e2, e3>>)
            ELSE Out(RetNull, <<e1, e2, e3, e4>>)
        ELSE IF ~pin /\ length > 0 THEN
            IF crash THEN Out(Crash, <<e1, e2, e3>>)
            ELSE Out(RetArr(ZeroArr(length, ByteWindow)), <<e1, e2, e3, e4>>)
        ELSE Out(RetArr(Arr(length, Take(vector.elems, Min(length, ByteWindow)))),
                 <<e1, e2, e3, e4>>)

c_nativeDeserializeInt8(data, pin, new, crash) ==
    LET data_length == data.len
        e1 == Ev("GetByteArrayElements", "data", Ptr(pin))
        na == NewArray(data_length, new)
        e2 == Ev("NewByteArray", "result", na)
        e3 == Ev("SetByteArrayRegion", "result", Ptr(pin))
        e4 == Ev("ReleaseByteArrayElements", "data", Ptr(pin))
    IN  IF IsNull(na) THEN
            IF crash THEN Out(Crash, <<e1, e2, e3>>)
            ELSE Out(RetNull, <<e1, e2, e3, e4>>)
        ELSE IF ~pin /\ data_length > 0 THEN
            IF crash THEN Out(Crash, <<e1, e2, e3>>)
            ELSE Out(RetArr(ZeroArr(data_length, ByteWindow)), <<e1, e2, e3, e4>>)
        ELSE Out(RetArr(Arr(data_length, Take(data.elems, Min(data_length, ByteWindow)))),
                 <<e1, e2, e3, e4>>)

----------------------------------------------------------------------------
(* Array Marshaller, sqlite-vec-jni.cpp *)

cpp_nativeSerializeFloat32(vector, le, pin, new) ==
    LET length == vector.len
        e1 == Ev("GetFloatArrayElements", "vector", Ptr(pin))
        byteLength == MulSizeofFloat(length)
        na == NewArray(byteLength, new)
        e2 == Ev("NewByteArray", "result", na)
        e3 == Ev("SetByteArrayRegion", "result", "ptr")
        e4 == Ev("ReleaseFloatArrayElements", "vector", "ptr")
        bytes == FloatsAsBytes(vector.elems, le)
    IN  IF ~pin THEN Out(RetNull, <<e1>>)
        ELSE IF na = "abort" THEN Out(Crash, <<e1, e2>>)
        ELSE IF IsNull(na) THEN Out(RetNull, <<e1, e2, e4>>)
        ELSE Out(RetArr(Arr(byteLength, Take(bytes, Min(byteLength, ByteWindow)))),
                 <<e1, e2, e3, e4>>)

cpp_nativeDeserializeFloat32_LeakOnMalformed(data, le, pin, new) ==
    LET byteLength == data.len
        e1 == Ev("GetByteArrayElements", "data", Ptr(pin))
        floatLength == byteLength \div SizeofFloat
        na == NewArray(floatLength, new)
        e2 == Ev("NewFloatArray", "result", na)
        e3 == Ev("SetFloatArrayRegion", "result", "ptr")
        e4 == Ev("ReleaseByteArrayElements", "data", "ptr")
    IN  IF ~pin \/ byteLength % SizeofFloat # 0 THEN Out(RetNull, <<e1>>)
        ELSE IF IsNull(na) THEN Out(RetNull, <<e1, e2, e4>>)
        ELSE Out(RetArr(Arr(floatLength,
                     BytesAsFloats(data.elems, Min(floatLength, FloatWindow), le))),
                 <<e1, e2, e3, e4>>)

cpp_nativeDeserializeFloat32(data, le, pin, new) ==
    LET byteLength == data.len
        e1 == Ev("GetByteArrayElements", "data", Ptr(pin))
        floatLength == byteLength \div SizeofFloat
        na == NewArray(floatLength, new)
        e2 == Ev("NewFloatArray", "result", na)
        e3 == Ev("SetFloatArrayRegion", "result", "ptr")
        e4 == Ev("ReleaseByteArrayElements", "data", "ptr")
    IN  IF ~pin \/ byteLength % SizeofFloat # 0 THEN
            Out(RetNull, IF pin THEN <<e1, e4>> ELSE <<e1>>)
        ELSE IF IsNull(na) THEN Out(RetNull, <<e1, e2, e4>>)
        ELSE Out(RetArr(Arr(floatLength,
                     BytesAsFloats(data.elems, Min(floatLength, FloatWindow), le))),
                 <<e1, e2, e3, e4>>)

cpp_nativeSerializeInt8(vector, pin, new) ==
    LET length == vector.len
        na == NewArray(length, new)
        e1 == Ev("NewByteArray", "result", na)
        e2 == Ev("GetByteArrayElements", "vector", Ptr(pin))
        e3 == Ev("SetByteArrayRegion", "result", "ptr")
        e4 == Ev("ReleaseByteArrayElements", "vector", "ptr")
    IN  IF IsNull(na) THEN Out(RetNull, <<e1>>)
        ELSE IF ~pin THEN Out(RetArr(ZeroArr(length, ByteWindow)), <<e1, e2>>)
        ELSE Out(RetArr(Arr(length, Take(vector.elems, Min(length, ByteWindow)))),
                 <<e1, e2, e3, e4>>)

----------------------------------------------------------------------------
(* Extension Initializer and Query Adapter, sqlite-vec-jni.c *)

NullDb == 0
Db1 == 1
DbHandles == {NullDb, Db1}
DbArg(db) == IF db = NullDb THEN "NULL" ELSE "db"

InitCodes == {SQLITE_OK, SQLITE_ERROR}
StepOutcomes == {"row", "done", "error"}

\* what sqlite3_vec_init reports: a message is only ever set on failure
InitRes(rc, msg) ==
    IF rc = SQLITE_OK THEN "ok" ELSE IF msg THEN "error+msg" ELSE "error"

c_nativeInit(db, rc, msg, crash) ==
    LET result == IF db = NullDb THEN SQLITE_ERROR ELSE rc
        error_msg == db # NullDb /\ rc # SQLITE_OK /\ msg
        e1 == Ev("sqlite3_vec_init", DbArg(db), InitRes(result, error_msg))
        e2 == Ev("sqlite3_free", "error_msg", "ptr")
    IN  IF db = NullDb /\ crash THEN Out(Crash, <<e1>>)
        ELSE IF result # SQLITE_OK /\ error_msg THEN Out(RetInt(result), <<e1, e2>>)
        ELSE Out(RetInt(result), <<e1>>)

c_nativeGetVersion == Out(Val("string", 0, NullArr, NoTerm), <<>>)

SqlVersion == "SELECT vec_version()"

c_nativeIsLoaded(db, prep, step, crash) ==
    LET ok == db # NullDb /\ prep
        e1 == Ev("sqlite3_prepare_v2", SqlVersion, IF ok THEN "ok" ELSE "error")
        e2 == Ev("sqlite3_step", "stmt", step)
        e3 == Ev("sqlite3_finalize", "stmt", "ok")
    IN  IF db = NullDb /\ crash THEN Out(Crash, <<e1>>)
        ELSE IF ~ok THEN Out(RetBool(FALSE), <<e1>>)
        ELSE Out(RetBool(step = "row"), <<e1, e2, e3>>)

----------------------------------------------------------------------------
(* Extension Initializer and Query Adapter, sqlite-vec-jni.cpp *)

cpp_nativeGetVersion == Out(Val("string", 0, NullArr, NoTerm), <<>>)

cpp_nativeInit(db, rc, msg) ==
    LET errorMessage == rc # SQLITE_OK /\ msg
        e1 == Ev("sqlite3_vec_init", DbArg(db), InitRes(rc, errorMessage))
        e2 == Ev("sqlite3_free", "error_msg", "ptr")
    IN  IF db = NullDb THEN Out(RetInt(SQLITE_ERROR), <<>>)
        ELSE IF rc # SQLITE_OK /\ errorMessage THEN Out(RetInt(rc), <<e1, e2>>)
        ELSE Out(RetInt(rc), <<e1>>)

SqlCosine == "SELECT vec_distance_cosine(?, ?)"
SqlL2 == "SELECT vec_distance_l2(?, ?)"
SqlLength == "SELECT vec_length(?)"
SqlNormalize == "SELECT vec_normalize(?)"

AbsentMetric == "<null>"
Metrics == {"cosine", "l2", "dot", AbsentMetric}

\* the strcmp chain of nativeDistance
MetricSql(metricStr) ==
    IF metricStr = "cosine" THEN SqlCosine
    ELSE IF metricStr = "l2" THEN SqlL2
    ELSE SqlCosine

\* the value a bound parameter has when the statement is stepped
Bound(v, pin) == IF pin THEN v ELSE NullArr

cpp_nativeDistance(db, vector1, vector2, metric, str, ub, prep, pin1, pin2, step) ==
    LET metricStr == IF metric = AbsentMetric THEN "NULL" ELSE Ptr(str)
        \* strcmp on a NULL metricStr is undefined: ub names what happens
        sql == IF IsNull(metricStr) THEN MetricSql(ub) ELSE MetricSql(metric)
        e1 == Ev("GetStringUTFChars", "metric", metricStr)
        e2 == Ev("ReleaseStringUTFChars", "metric", metricStr)
        e3 == Ev("sqlite3_prepare_v2", sql, IF prep THEN "ok" ELSE "error")
        e4 == Ev("GetByteArrayElements", "vector1", Ptr(pin1))
        e5 == Ev("sqlite3_bind_blob", "vector1", Ptr(pin1))
        e6 == Ev("GetByteArrayElements", "vector2", Ptr(pin2))
        e7 == Ev("sqlite3_bind_blob", "vector2", Ptr(pin2))
        e8 == Ev("sqlite3_step", "stmt", step)
        e9 == Ev("sqlite3_column_double", "stmt", "ok")
        e10 == Ev("ReleaseByteArrayElements", "vector1", Ptr(pin1))
        e11 == Ev("ReleaseByteArrayElements", "vector2", Ptr(pin2))
        e12 == Ev("sqlite3_finalize", "stmt", "ok")
        t == Term(sql, Bound(vector1, pin1), Bound(vector2, pin2))
    IN  IF db = NullDb THEN Out(RetDouble(-1), <<>>)
        ELSE IF IsNull(metricStr) /\ ub = "crash" THEN Out(Crash, <<e1>>)
        ELSE IF ~prep THEN Out(RetDouble(-1), <<e1, e2, e3>>)
        ELSE IF step = "row" THEN
            Out(RetCol("double", t),
                <<e1, e2, e3, e4, e5, e6, e7, e8, e9, e10, e11, e12>>)
        ELSE Out(RetDouble(-1), <<e1, e2, e3, e4, e5, e6, e7, e8, e10, e11, e12>>)

cpp_nativeVectorLength(db, vector, prep, pin, step) ==
    LET e1 == Ev("sqlite3_prepare_v2", SqlLength, IF prep THEN "ok" ELSE "error")
        e2 == Ev("GetByteArrayElements", "vector", Ptr(pin))
        e3 == Ev("sqlite3_bind_blob", "vector", Ptr(pin))
        e4 == Ev("sqlite3_step", "stmt", step)
        e5 == Ev("sqlite3_column_int", "stmt", "ok")
        e6 == Ev("ReleaseByteArrayElements", "vector", Ptr(pin))
        e7 == Ev("sqlite3_finalize", "stmt", "ok")
        t == Term(SqlLength, Bound(vector, pin), NullArr)
    IN  IF db = NullDb THEN Out(RetInt(-1), <<>>)
        ELSE IF ~prep THEN Out(RetInt(-1), <<e1>>)
        ELSE IF step = "row" THEN
            Out(RetCol("int", t), <<e1, e2, e3, e4, e5, e6, e7>>)
        ELSE Out(RetInt(-1), <<e1, e2, e3, e4, e6, e7>>)

cpp_nativeNormalize_NoRowCheck(db, vector, prep, pin, step, new) ==
    LET e1 == Ev("sqlite3_prepare_v2", SqlNormalize, IF prep THEN "ok" ELSE "error")
        e2 == Ev("GetByteArrayElements", "vector", Ptr(pin))
        e3 == Ev("sqlite3_bind_blob", "vector", Ptr(pin))
        e4 == Ev("sqlite3_step", "stmt", step)
        e5 == Ev("sqlite3_column_blob", "stmt", "ok")
        e6 == Ev("NewByteArray", "result", NewArray(0, new))
        e7 == Ev("SetByteArrayRegion", "result", "ptr")
        e8 == Ev("ReleaseByteArrayElements", "vector", Ptr(pin))
        e9 == Ev("sqlite3_finalize", "stmt", "ok")
        t == Term(SqlNormalize, Bound(vector, pin), NullArr)
    IN  IF db = NullDb THEN Out(RetNull, <<>>)
        ELSE IF ~prep THEN Out(RetNull, <<e1>>)
        ELSE IF new # "ok" THEN Out(RetNull, <<e1, e2, e3, e4, e5, e6, e8, e9>>)
        ELSE Out(RetCol("array", t), <<e1, e2, e3, e4, e5, e6, e7, e8, e9>>)

cpp_nativeNormalize(db, vector, prep, pin, step, new) ==
    LET e1 == Ev("sqlite3_prepare_v2", SqlNormalize, IF prep THEN "ok" ELSE "error")
        e2 == Ev("GetByteArrayElements", "vector", Ptr(pin))
        e3 == Ev("sqlite3_bind_blob", "vector", Ptr(pin))
        e4 == Ev("sqlite3_step", "stmt", step)
        e5 == Ev("sqlite3_column_blob", "stmt", "ok")
        e6 == Ev("NewByteArray", "result", NewArray(0, new))
        e7 == Ev("SetByteArrayRegion", "result", "ptr")
        e8 == Ev("ReleaseByteArrayElements", "vector", Ptr(pin))
        e9 == Ev("sqlite3_finalize", "stmt", "ok")
        t == Term(SqlNormalize, Bound(vector, pin), NullArr)
    IN  IF db = NullDb THEN Out(RetNull, <<>>)
        ELSE IF ~prep THEN Out(RetNull, <<e1>>)
        ELSE IF step # "row" THEN Out(RetNull, <<e1, e2, e3, e4, e8, e9>>)
        ELSE IF new # "ok" THEN Out(RetNull, <<e1, e2, e3, e4, e5, e6, e8, e9>>)
        ELSE Out(RetCol("array", t), <<e1, e2, e3, e4, e5, e6, e7, e8, e9>>)

\* the Java_com_sqlite_vec_SQLiteVec_native* symbols each file defines
Exports(i) ==
    IF i = "c" THEN
        {"Init", "GetVersion", "SerializeFloat32", "DeserializeFloat32",
         "SerializeInt8", "DeserializeInt8", "IsLoaded"}
    ELSE
        {"GetVersion", "Init", "SerializeFloat32", "DeserializeFloat32",
         "SerializeInt8", "Distance", "VectorLength", "Normalize"}

----------------------------------------------------------------------------
(* Resources a call acquires and releases, read off its log *)

Resources == {"vector", "vector1", "vector2", "data", "metric", "stmt", "error_msg"}

IsPin(e) == e.call \in {"GetFloatArrayElements", "GetByteArrayElements", "GetStringUTFChars"}
IsUnpin(e) == e.call \in {"ReleaseFloatArrayElements", "ReleaseByteArrayElements",
                          "ReleaseStringUTFChars"}

Acquires(e, r) ==
    \/ IsPin(e) /\ e.arg = r /\ e.res = "ptr"
    \/ e.call = "sqlite3_prepare_v2" /\ r = "stmt" /\ e.res = "ok"
    \/ e.call = "sqlite3_vec_init" /\ r = "error_msg" /\ e.res = "error+msg"

Releases(e, r) ==
    \/ IsUnpin(e) /\ e.arg = r /\ e.res = "ptr"
    \/ e.call = "sqlite3_finalize" /\ r = "stmt"
    \/ e.call = "sqlite3_free" /\ r = "error_msg"

NAcquired(l, r) == Cardinality({i \in 1..Len(l) : Acquires(l[i], r)})
NReleased(l, r) == Cardinality({i \in 1..Len(l) : Releases(l[i], r)})

Held(l) == {r \in Resources : NAcquired(l, r) > NReleased(l, r)}

----------------------------------------------------------------------------
(* The state machine: the Java side calls one native method after another *)

Ops == {"Init", "GetVersion", "SerializeFloat32", "DeserializeFloat32",
        "SerializeInt8", "DeserializeInt8", "IsLoaded", "Distance",
        "VectorLength", "Normalize"}

Call(op, db, a1, a2, metric, chained) ==
    [op |-> op, db |-> db, a1 |-> a1, a2 |-> a2, metric |-> metric,
     chained |-> chained]

NoOrigin == [vec |-> NullArr, log |-> <<>>]

\* buffers handed to the Query Adapter
QueryBufs == {Arr(Len(s), s) : s \in {<<>>, <<0, 0, -128, 63>>, <<63, -128, 63>>}}

NoCall == Call("none", NullDb, NullArr, NullArr, "", FALSE)

\* The Java thread is between native calls.  (The binding keeps no state of
\* its own and the caller is single-threaded per connection, so a method is
\* entered only after the previous one has handed its value back; a
\* crashed process makes no further calls.)
Idle == call = NoCall

Init ==
    /\ impl \in {"c", "cpp"}
    /\ littleEndian \in BOOLEAN
    /\ loaded = FALSE
    /\ call = NoCall
    /\ ret = NoRet
    /\ log = <<>>
    /\ origin = NoOrigin
    /\ leaked = {}

\* a native method the linked library does not define cannot be called
Linked(op, o) == IF op \in Exports(impl) THEN o ELSE Out(NoLink, <<>>)

Return(c, o, org) ==
    /\ call' = c
    /\ ret' = o.ret
    /\ log' = o.log
    /\ origin' = org
    /\ leaked' = IF ret'.kind = "crash" THEN leaked ELSE leaked \cup Held(log')
    /\ UNCHANGED <<impl, littleEndian>>

Registered(o) ==
    \E i \in 1..Len(o.log) :
        o.log[i] = Ev("sqlite3_vec_init", "db", "ok")

nativeInit ==
    /\ Idle
    /\ \E db \in DbHandles, rc \in InitCodes, msg \in BOOLEAN, crash \in BOOLEAN :
        LET o == IF impl = "c" THEN c_nativeInit(db, rc, msg, crash)
                 ELSE cpp_nativeInit(db, rc, msg)
        IN  /\ Return(Call("Init", db, NullArr, NullArr, "", FALSE), o, NoOrigin)
            /\ loaded' = (loaded \/ (o.ret.kind # "crash" /\ Registered(o)))

nativeGetVersion ==
    /\ Idle
    /\ LET o == IF impl = "c" THEN c_nativeGetVersion ELSE cpp_nativeGetVersion
       IN  Return(Call("GetVersion", NullDb, NullArr, NullArr, "", FALSE), o, NoOrigin)
    /\ UNCHANGED loaded

nativeSerializeFloat32 ==
    /\ Idle
    /\ \E vector \in FloatArrays, pin \in BOOLEAN, new \in AllocOutcomes,
          crash \in BOOLEAN :
        LET o == IF impl = "c"
                 THEN c_nativeSerializeFloat32(vector, littleEndian, pin, new, crash)
                 ELSE cpp_nativeSerializeFloat32(vector, littleEndian, pin, new)
        IN  Return(Call("SerializeFloat32", NullDb, vector, NullArr, "", FALSE), o,
                   [vec |-> vector, log |-> o.log])
    /\ UNCHANGED loaded

DeserializeFloat32Of(data, chained, org) ==
    \E pin \in BOOLEAN, new \in AllocOutcomes, crash \in BOOLEAN :
        LET o == IF impl = "c"
                 THEN c_nativeDeserializeFloat32(data, littleEndian, pin, new, crash)
                 ELSE cpp_nativeDeserializeFloat32(data, littleEndian, pin, new)
        IN  Return(Call("DeserializeFloat32", NullDb, data, NullArr, "", chained), o, org)

nativeDeserializeFloat32 ==
    /\ Idle
    /\ \E data \in ByteArrays : DeserializeFloat32Of(data, FALSE, NoOrigin)
    /\ UNCHANGED loaded

\* the caller feeds the buffer SerializeFloat32 just returned back in
RoundTripFloat32 ==
    /\ call.op = "SerializeFloat32"
    /\ ret.kind = "array"
    /\ DeserializeFloat32Of(ret.arr, TRUE, origin)
    /\ UNCHANGED loaded

nativeSerializeInt8 ==
    /\ Idle
    /\ \E vector \in ByteArrays, pin \in BOOLEAN, new \in AllocOutcomes,
          crash \in BOOLEAN :
        LET o == IF impl = "c" THEN c_nativeSerializeInt8(vector, pin, new, crash)
                 ELSE cpp_nativeSerializeInt8(vector, pin, new)
        IN  Return(Call("SerializeInt8", NullDb, vector, NullArr, "", FALSE), o, NoOrigin)
    /\ UNCHANGED loaded

nativeDeserializeInt8 ==
    /\ Idle
    /\ \E data \in ByteArrays, pin \in BOOLEAN, new \in AllocOutcomes,
          crash \in BOOLEAN :
        LET o == Linked("DeserializeInt8", c_nativeDeserializeInt8(data, pin, new, crash))
        IN  Return(Call("DeserializeInt8", NullDb, data, NullArr, "", FALSE), o, NoOrigin)
    /\ UNCHANGED loaded

\* a statement naming a vec_* function compiles only once the extension is
\* registered on the connection
Prepares == {p \in BOOLEAN : p => loaded}

nativeIsLoaded ==
    /\ Idle
    /\ \E db \in DbHandles, prep \in Prepares, step \in StepOutcomes,
          crash \in BOOLEAN :
        LET o == Linked("IsLoaded", c_nativeIsLoaded(db, prep, step, crash))
        IN  Return(Call("IsLoaded", db, NullArr, NullArr, "", FALSE), o, NoOrigin)
    /\ UNCHANGED loaded

nativeDistance ==
    /\ Idle
    /\ \E db \in DbHandles, vector1 \in QueryBufs, vector2 \in QueryBufs,
          metric \in Metrics, str \in BOOLEAN, ub \in UBOutcomes,
          prep \in Prepares, pin1 \in BOOLEAN, pin2 \in BOOLEAN,
          step \in StepOutcomes :
        LET o == Linked("Distance",
                     cpp_nativeDistance(db, vector1, vector2, metric, str, ub, prep,
                                        pin1, pin2, step))
        IN  Return(Call("Distance", db, vector1, vector2, metric, FALSE), o, NoOrigin)
    /\ UNCHANGED loaded

nativeVectorLength ==
    /\ Idle
    /\ \E db \in DbHandles, vector \in QueryBufs, prep \in Prepares,
          pin \in BOOLEAN, step \in StepOutcomes :
        LET o == Linked("VectorLength", cpp_nativeVectorLength(db, vector, prep, pin, step))
        IN  Return(Call("VectorLength", db, vector, NullArr, "", FALSE), o, NoOrigin)
    /\ UNCHANGED loaded

nativeNormalize ==
    /\ Idle
    /\ \E db \in DbHandles, vector \in QueryBufs, prep \in Prepares,
          pin \in BOOLEAN, step \in StepOutcomes, new \in AllocOutcomes :
        LET o == Linked("Normalize", cpp_nativeNormalize(db, vector, prep, pin, step, new))
        IN  Return(Call("Normalize", db, vector, NullArr, "", FALSE), o, NoOrigin)
    /\ UNCHANGED loaded

\* the caller takes the value the native method returned
JavaReturn ==
    /\ call # NoCall
    /\ ret.kind # "crash"
    /\ call' = NoCall
    /\ ret' = NoRet
    /\ log' = <<>>
    /\ origin' = NoOrigin
    /\ UNCHANGED <<impl, littleEndian, loaded, leaked>>

Next ==
    \/ JavaReturn
    \/ nativeInit
    \/ nativeGetVersion
    \/ nativeSerializeFloat32
    \/ nativeDeserializeFloat32
    \/ RoundTripFloat32
    \/ nativeSerializeInt8
    \/ nativeDeserializeInt8
    \/ nativeIsLoaded
    \/ nativeDistance
    \/ nativeVectorLength
    \/ nativeNormalize

Spec == Init /\ [][Next]_vars

TypeOK ==
    /\ impl \in {"c", "cpp"}
    /\ littleEndian \in BOOLEAN
    /\ loaded \in BOOLEAN
    /\ call.op \in Ops \cup {"none"}
    /\ leaked \subseteq Resources

----------------------------------------------------------------------------
(* Properties *)

QueryOps == {"Distance", "VectorLength", "Normalize"}

NCalls(l, name) == Cardinality({i \in 1..Len(l) : l[i].call = name})
Has(l, name, res) == \E i \in 1..Len(l) : l[i].call = name /\ l[i].res = res
PrepOK(l) == Has(l, "sqlite3_prepare_v2", "ok")
StepRow(l) == Has(l, "sqlite3_step", "row")
Before(l, a, b) ==
    \A j \in 1..Len(l) : l[j].call = b => \E i \in 1..(j - 1) : l[i].call = a

\* the value each operation returns when it has no result
Sentinel(op) ==
    CASE op = "Distance" -> RetDouble(-1)
      [] op = "VectorLength" -> RetInt(-1)
      [] op = "Normalize" -> RetNull
      [] op = "IsLoaded" -> RetBool(FALSE)

ColKind(op) ==
    CASE op = "Distance" -> "double"
      [] op = "VectorLength" -> "int"
      [] op = "Normalize" -> "array"

\* the largest float count whose byte length is still a jsize
MaxSerializable == JSizeMax \div SizeofFloat

RoundTripDone ==
    /\ call.op = "DeserializeFloat32"
    /\ call.chained
    /\ EnvOK(origin.log)
    /\ EnvOK(log)

\* C1 as stated: for every float32 vector v of any length N, in either
\* implementation, DeserializeFloat32(SerializeFloat32(v)) is a vector of N
\* elements equal to v element for element.
C1_RoundTripAnyLength ==
    RoundTripDone => (ret.kind = "array" /\ ret.arr = origin.vec)

\* C1 amended: for every float32 vector v of N <= 2^29 - 1 elements, in either
\* implementation, when the arrays could be pinned and allocated,
\* DeserializeFloat32(SerializeFloat32(v)) is a vector of N elements equal to
\* v element for element.
C1_RoundTrip ==
    (RoundTripDone /\ origin.vec.len <= MaxSerializable)
        => (ret.kind = "array" /\ ret.arr = origin.vec)

C1_Witness ==
    /\ RoundTripDone
    /\ origin.vec.len = MaxLen
    /\ origin.vec.elems[1] # 0
    /\ ret.kind = "array"
    /\ ret.arr = origin.vec

\* C2: DeserializeFloat32 of a buffer whose length is not divisible by 4
\* returns null, never a truncated vector, in either implementation.
C2_MalformedIsNull ==
    (call.op = "DeserializeFloat32" /\ call.a1.len % SizeofFloat # 0 /\ EnvOK(log))
        => ret.kind = "null"

\* C3: nativeInit on a null connection handle returns a failure status and
\* never calls sqlite3_vec_init, in either implementation.
C3_NullInitNoEngineCall ==
    (call.op = "Init" /\ call.db = NullDb)
        => /\ ret.kind = "int"
           /\ ret.lit # SQLITE_OK
           /\ NCalls(log, "sqlite3_vec_init") = 0

\* C4: Distance picks its SQL from the metric name alone: "l2" gives
\* vec_distance_l2; "cosine", an unrecognized name and an absent name all give
\* vec_distance_cosine, and no error is raised for them.
C4_MetricSelectsSql ==
    (/\ call.op = "Distance"
     /\ "Distance" \in Exports(impl)
     /\ call.db # NullDb
     /\ EnvOK(log))
        => /\ ret.kind # "crash"
           /\ Has(log, "sqlite3_prepare_v2", "ok") \/ Has(log, "sqlite3_prepare_v2", "error")
           /\ \A i \in 1..Len(log) :
                log[i].call = "sqlite3_prepare_v2"
                    => log[i].arg = (IF call.metric = "l2" THEN SqlL2 ELSE SqlCosine)
           /\ ret.col # NoTerm
                => ret.col.fn = (IF call.metric = "l2" THEN SqlL2 ELSE SqlCosine)

\* C5: SerializeInt8 and DeserializeInt8 each return a fresh byte array equal
\* to their input, and both are provided by each implementation.
C5_Int8IdentityBoth ==
    (call.op \in {"SerializeInt8", "DeserializeInt8"} /\ EnvOK(log))
        => (ret.kind = "array" /\ ret.arr = call.a1)

\* C6: IsLoaded, Distance, VectorLength and Normalize, given a null handle,
\* return their failure value without any engine call and without pinning
\* any array or string.
C6_NullHandleFailsFast ==
    (call.op \in QueryOps \cup {"IsLoaded"} /\ call.op \in Exports(impl)
     /\ call.db = NullDb)
        => (ret = Sentinel(call.op) /\ log = <<>>)

QueryReturned ==
    /\ call.op \in QueryOps
    /\ call.db # NullDb
    /\ ret.kind \notin {"crash", "unsatisfied_link"}

OneStatementOneStep ==
    /\ NCalls(log, "sqlite3_prepare_v2") = 1
    /\ NCalls(log, "sqlite3_step") = (IF PrepOK(log) THEN 1 ELSE 0)

BoundByRef(l, names) ==
    \E i \in 1..Len(l) :
        l[i].call = "sqlite3_bind_blob" /\ l[i].arg \in names /\ l[i].res = "ptr"

\* the first column of the row the statement produced
FirstColumn ==
    /\ ret.kind = ColKind(call.op)
    /\ ret.col.fn \in {log[i].arg : i \in {j \in 1..Len(log) : log[j].call = "sqlite3_prepare_v2"}}
    /\ ret.col.a1 = Bound(call.a1, BoundByRef(log, {"vector", "vector1"}))
    /\ ret.col.a2 = Bound(call.a2, BoundByRef(log, {"vector2"}))
    /\ Before(log, "sqlite3_step", "sqlite3_finalize")
    /\ call.op = "Normalize" =>
         /\ Before(log, "sqlite3_column_blob", "SetByteArrayRegion")
         /\ Before(log, "SetByteArrayRegion", "sqlite3_finalize")

IsLoadedIffRow ==
    (call.op = "IsLoaded" /\ ret.kind = "bool")
        => /\ NCalls(log, "sqlite3_step") <= 1
           /\ (ret.lit = 1) <=> StepRow(log)

\* C7 as stated: Distance, VectorLength and Normalize on a non-null connection
\* prepare one statement and run one step; they return the first column of the
\* row if and only if the prepare succeeded and the step produced a row, and
\* their sentinel otherwise; IsLoaded is true if and only if its step
\* produced a row.
C7_RowOrSentinelAsStated ==
    /\ QueryReturned =>
         /\ OneStatementOneStep
         /\ IF PrepOK(log) /\ StepRow(log) THEN FirstColumn
            ELSE ret = Sentinel(call.op)
    /\ IsLoadedIffRow

\* C7 amended: as C7, except that Normalize returns the copy of the blob if
\* and only if the prepare succeeded, the step produced a row and the result
\* array could be allocated; it returns null otherwise.
C7_RowOrSentinel ==
    /\ QueryReturned =>
         /\ OneStatementOneStep
         /\ IF /\ PrepOK(log)
               /\ StepRow(log)
               /\ call.op = "Normalize" => Has(log, "NewByteArray", "ok")
            THEN FirstColumn
            ELSE ret = Sentinel(call.op)
    /\ IsLoadedIffRow

C7_Witness ==
    /\ call.op = "Normalize"
    /\ call.db # NullDb
    /\ StepRow(log)
    /\ ret.kind = "array"
    /\ ret.col = Term(SqlNormalize, call.a1, NullArr)

ReleasedOnce(l, r) ==
    /\ NAcquired(l, r) = NReleased(l, r)
    /\ \A i \in 1..Len(l) :
         Releases(l[i], r) =>
            NAcquired(SubSeq(l, 1, i - 1), r) = NReleased(SubSeq(l, 1, i - 1), r) + 1

\* C8: whenever a call has returned, whatever its outcome, nothing it acquired
\* is still held: every prepared statement has been finalized exactly once,
\* every pinned array or string released exactly once, every error message of
\* a failed sqlite3_vec_init freed exactly once.
C8_BorrowAndRelease ==
    /\ leaked = {}
    /\ ret.kind # "crash" => \A r \in Resources : ReleasedOnce(log, r)

C8_Witness ==
    /\ call.op = "Distance"
    /\ ret.kind = "double"
    /\ NReleased(log, "stmt") = 1
    /\ NReleased(log, "metric") = 1
    /\ NReleased(log, "vector1") = 1
    /\ NReleased(log, "vector2") = 1

\* C9: in Distance, VectorLength and Normalize a buffer bound to the
\* statement by reference is released only after the statement has been
\* finalized.
C9_BoundBufferOutlivesStatement ==
    call.op \in QueryOps =>
        \A i \in 1..Len(log) :
            (/\ IsUnpin(log[i])
             /\ log[i].res = "ptr"
             /\ BoundByRef(log, {log[i].arg}))
                => \E j \in 1..(i - 1) : log[j].call = "sqlite3_finalize"

SerializedLength ==
    /\ ret.kind = "array"
    /\ ret.arr.len % SizeofFloat = 0
    /\ ret.arr.len \div SizeofFloat = call.a1.len

DeserializedLength ==
    (call.op = "DeserializeFloat32" /\ call.a1.len % SizeofFloat = 0 /\ EnvOK(log))
        => (ret.kind = "array" /\ ret.arr.len = call.a1.len \div SizeofFloat)

\* C10 as stated: SerializeFloat32 of N elements returns exactly 4*N bytes for
\* every 0 <= N <= 2^31 - 1, the byte length never wrapping in jsize; and
\* DeserializeFloat32 of B bytes, B divisible by 4, returns B/4 elements.
C10_LengthAnyCount ==
    /\ (call.op = "SerializeFloat32" /\ EnvOK(log)) => SerializedLength
    /\ DeserializedLength

\* C10 amended: SerializeFloat32 of N elements returns exactly 4*N bytes for
\* every 0 <= N <= 2^29 - 1 (beyond that 4*N is not a jsize and the computed
\* length wraps), and DeserializeFloat32 of B bytes, B divisible by 4, returns
\* B/4 elements, when the arrays could be pinned and allocated.
C10_Length ==
    /\ (call.op = "SerializeFloat32" /\ EnvOK(log) /\ call.a1.len <= MaxSerializable)
          => SerializedLength
    /\ DeserializedLength

C10_Witness ==
    /\ call.op = "SerializeFloat32"
    /\ EnvOK(log)
    /\ call.a1.len = MaxSerializable
    /\ ret.kind = "array"
    /\ ret.arr.len = JSizeMax - 3

====
